---- MODULE Spec2Model ----
(***************************************************************************)
(* A model of gmail-archive: the CLI run of main.py (authenticate, list    *)
(* and get unread messages, classify, display), the label mapping of       *)
(* EmailClassifier.classify_email, the body extraction of                  *)
(* GmailClient.get_unread_emails and the regex normalization pipeline of   *)
(* EmailBodyUtils.  Text is a sequence of one-character strings.           *)
(***************************************************************************)
EXTENDS Integers, Sequences, FiniteSets, TLC

VARIABLES
    \* the run of main()
    pc,          \* the step main is at: "auth", "list", "get", "init_classifier",
                 \* "classify", "display" or "exit"
    api_key,     \* the environment's OPENAI_API_KEY ("" when not set)
    token,       \* the cached token file when the run starts
    auth,        \* what authenticate returned and the service it built
    messages,    \* the message ids the list call returned
    idx,         \* the index of the running loop (over messages, then emails)
    emails,      \* get_unread_emails: the emails fetched so far, then its result
    classified,  \* classify_emails: classified_emails, then its result
    failed,      \* per classification call, whether it raised
    shown,       \* what display_emails rendered: "none", "panel" or "table"
    raised,      \* the exception that reached main's handler ("none" if none)
    exit_code,   \* the exit code of the process, -1 while it runs
    calls,       \* the log of the calls made to the providers and the renderer
    \* one call of EmailClassifier.classify_email
    cPc,         \* "ready" before the call, "returned" after it
    cEmail,      \* the email argument
    cRequest,    \* the user message sent with the request
    cOutcome,    \* the outcome of the chat-completion call
    cLabel,      \* the label returned
    \* one call of _extract_body
    bPc,         \* "ready" before the call, "done" after it
    bPayload,    \* the payload argument
    bResult,     \* the body returned, or the error raised
    \* one call of a method of EmailBodyUtils
    nBody,       \* the body argument
    nOp,         \* the method applied ("none" before the call)
    nOut,        \* the value the method returned
    nAgain,      \* clean_strip applied to its own result: whether that second
                 \* call was made, and the value it returned
    \* one call of EmailTableFormatter.display_emails
    tPc,         \* "ready" before the call, "done" after it
    tEmails,     \* the emails argument
    tMax,        \* the max_results argument
    tRows,       \* the rows added to the table, in order
    tShown,      \* what was printed: "none", "panel" or "table"
    tSummary,    \* the summary line printed after the table ("none" if none)
    tRaised      \* whether the call raised

mainVars == <<pc, api_key, token, auth, messages, idx, emails, classified,
              failed, shown, raised, exit_code, calls>>
clsVars == <<cPc, cEmail, cRequest, cOutcome, cLabel>>
bodyVars == <<bPc, bPayload, bResult>>
normVars == <<nBody, nOp, nOut, nAgain>>
tableVars == <<tPc, tEmails, tMax, tRows, tShown, tSummary, tRaised>>
vars == <<mainVars, clsVars, bodyVars, normVars, tableVars>>

(***************************************************************************)
(* Bounds of the model.                                                    *)
(***************************************************************************)
\* number of vocabulary pieces concatenated into a body given to EmailBodyUtils
MaxPieces == 3
\* number of vocabulary words concatenated into a response of the classifier
MaxWords == 2
\* number of parts of a multipart payload
MaxParts == 2
\* number of unread messages the list call returns (at most max_results)
MaxMessages == 2
\* number of emails given to display_emails
MaxEmails == 3

(***************************************************************************)
(* Characters and character classes (Python str / re on str patterns).     *)
(***************************************************************************)
LowerLetters ==
    {"a", "b", "c", "d", "e", "f", "g", "h", "i", "j", "k", "l", "m",
     "n", "o", "p", "q", "r", "s", "t", "u", "v", "w", "x", "y", "z"}

UpperLetters ==
    {"A", "B", "C", "D", "E", "F", "G", "H", "I", "J", "K", "L", "M",
     "N", "O", "P", "Q", "R", "S", "T", "U", "V", "W", "X", "Y", "Z"}

DigitChars == {"0", "1", "2", "3", "4", "5", "6", "7", "8", "9"}

\* str.lower() on one character
LowerOf ==
    [A |-> "a", B |-> "b", C |-> "c", D |-> "d", E |-> "e", F |-> "f",
     G |-> "g", H |-> "h", I |-> "i", J |-> "j", K |-> "k", L |-> "l",
     M |-> "m", N |-> "n", O |-> "o", P |-> "p", Q |-> "q", R |-> "r",
     S |-> "s", T |-> "t", U |-> "u", V |-> "v", W |-> "w", X |-> "x",
     Y |-> "y", Z |-> "z"]

LowerChar(c) == IF c \in UpperLetters THEN LowerOf[c] ELSE c

\* str.lower()
Lower(s) == [k \in 1..Len(s) |-> LowerChar(s[k])]

\* \s of re, and the characters str.split() / str.strip() treat as whitespace
IsSpace(c) == c \in {" ", "\t", "\n", "\r"}

\* [a-zA-Z]
IsAlpha(c) == c \in LowerLetters \/ c \in UpperLetters

\* the least element of the non-empty set S of integers, and the greatest
Min(S) == CHOOSE x \in S : \A y \in S : x <= y
Max(S) == CHOOSE x \in S : \A y \in S : x >= y

\* the least index j >= from with s[j] = c, or 0
FirstIdx(s, from, c) ==
    LET S == {j \in from..Len(s) : s[j] = c}
    IN  IF S = {} THEN 0 ELSE Min(S)

\* the least index j >= from with s[j] not whitespace, or Len(s) + 1
SkipSpace(s, from) ==
    LET S == {j \in from..Len(s) : ~IsSpace(s[j])}
    IN  IF S = {} THEN Len(s) + 1 ELSE Min(S)

\* the literal lit occurs in s at index i
LitAt(s, i, lit) ==
    /\ i + Len(lit) - 1 <= Len(s)
    /\ \A k \in 1..Len(lit) : s[i + k - 1] = lit[k]

\* the lower-case literal lit occurs in s at index i, ignoring case (re.IGNORECASE)
LitAtCI(s, i, lit) ==
    /\ i + Len(lit) - 1 <= Len(s)
    /\ \A k \in 1..Len(lit) : LowerChar(s[i + k - 1]) = lit[k]

\* the least index j >= from at which lit occurs ignoring case, or 0
FindCI(s, from, lit) ==
    LET S == {j \in from..Len(s) : LitAtCI(s, j, lit)}
    IN  IF S = {} THEN 0 ELSE Min(S)

\* `sub in s` of Python
Contains(s, sub) ==
    \E i \in 1..(Len(s) - Len(sub) + 1) : LitAt(s, i, sub)

\* str.strip(): leading and trailing whitespace removed
Trim(s) ==
    LET S == {j \in 1..Len(s) : ~IsSpace(s[j])}
    IN  IF S = {} THEN <<>> ELSE SubSeq(s, Min(S), Max(S))

(***************************************************************************)
(* Regular expressions of email_body_utils.py.  A pattern is a record with *)
(* a kind and, for the catalogue entries, the property name.  Match(p,s,i) *)
(* is the index of the last character of the match of p that starts at     *)
(* index i of s, or 0 when p does not match there.  Every pattern is       *)
(* anchored by literals and negated classes, so the match at a position is *)
(* unique and backtracking cannot change it.                               *)
(***************************************************************************)
StyleOpen == <<"<", "s", "t", "y", "l", "e">>
StyleClose == <<"<", "/", "s", "t", "y", "l", "e", ">">>
ImportWord == <<"@", "i", "m", "p", "o", "r", "t">>

\* <[^>]+>
MatchTag(s, i) ==
    IF s[i] # "<" THEN 0
    ELSE LET j == FirstIdx(s, i + 1, ">")
         IN  IF j >= i + 2 THEN j ELSE 0

\* <style[^>]*>.*?</style>   (DOTALL | IGNORECASE)
MatchStyle(s, i) ==
    IF ~LitAtCI(s, i, StyleOpen) THEN 0
    ELSE LET j == FirstIdx(s, i + Len(StyleOpen), ">")
         IN  IF j = 0 THEN 0
             ELSE LET k == FindCI(s, j + 1, StyleClose)
                  IN  IF k = 0 THEN 0 ELSE k + Len(StyleClose) - 1

\* @import[^;]*;   (IGNORECASE)
MatchImport(s, i) ==
    IF ~LitAtCI(s, i, ImportWord) THEN 0
    ELSE FirstIdx(s, i + Len(ImportWord), ";")

\* /\*.*?\*/   (DOTALL)
MatchComment(s, i) ==
    IF ~LitAt(s, i, <<"/", "*">>) THEN 0
    ELSE LET S == {j \in (i + 2)..Len(s) : LitAt(s, j, <<"*", "/">>)}
         IN  IF S = {} THEN 0 ELSE Min(S) + 1

\* [a-zA-Z#\.]
IsRuleStart(c) == IsAlpha(c) \/ c \in {"#", "."}

\* [a-zA-Z0-9\-_\.\s]
IsRuleChar(c) ==
    IsAlpha(c) \/ c \in DigitChars \/ c \in {"-", "_", "."} \/ IsSpace(c)

\* the least index j >= from with s[j] outside [a-zA-Z0-9\-_\.\s], or Len(s) + 1
SkipRuleChars(s, from) ==
    LET S == {j \in from..Len(s) : ~IsRuleChar(s[j])}
    IN  IF S = {} THEN Len(s) + 1 ELSE Min(S)

\* [a-zA-Z#\.][a-zA-Z0-9\-_\.\s]*\s*\{[^}]*\}
MatchRule(s, i) ==
    IF ~IsRuleStart(s[i]) THEN 0
    ELSE LET j == SkipRuleChars(s, i + 1)
         IN  IF j > Len(s) \/ s[j] # "{" THEN 0
             ELSE FirstIdx(s, j + 1, "}")

\* \s*:\s*[^;]+;  from index p on: the index of the closing ";", or 0
DeclTail(s, p) ==
    LET q == SkipSpace(s, p)
    IN  IF q > Len(s) \/ s[q] # ":" THEN 0
        ELSE LET e == FirstIdx(s, q + 1, ";")
             IN  IF e >= q + 2 THEN e ELSE 0

\* name\s*:\s*[^;]+;   (IGNORECASE)
MatchDecl(name, s, i) ==
    IF ~LitAtCI(s, i, name) THEN 0 ELSE DeclTail(s, i + Len(name))

\* a literal pattern   (IGNORECASE)
MatchLiteral(name, s, i) ==
    IF LitAtCI(s, i, name) THEN i + Len(name) - 1 ELSE 0

\* name\s*:\s*[^;]*$   (IGNORECASE; $ is the end of the string)
MatchIncomplete(name, s, i) ==
    IF ~LitAtCI(s, i, name) THEN 0
    ELSE LET q == SkipSpace(s, i + Len(name))
         IN  IF q > Len(s) \/ s[q] # ":" THEN 0
             ELSE IF FirstIdx(s, q + 1, ";") = 0 THEN Len(s) ELSE 0

\* [a-zA-Z\-]
IsPropChar(c) == IsAlpha(c) \/ c = "-"

\* the least index j >= from with s[j] outside [a-zA-Z\-], or Len(s) + 1
SkipPropChars(s, from) ==
    LET S == {j \in from..Len(s) : ~IsPropChar(s[j])}
    IN  IF S = {} THEN Len(s) + 1 ELSE Min(S)

\* [a-zA-Z\-]+\s*:\s*[^;]+;
MatchGeneric(s, i) ==
    IF ~IsPropChar(s[i]) THEN 0
    ELSE DeclTail(s, SkipPropChars(s, i + 1))

Match(p, s, i) ==
    CASE p.kind = "tag" -> MatchTag(s, i)
      [] p.kind = "style" -> MatchStyle(s, i)
      [] p.kind = "import" -> MatchImport(s, i)
      [] p.kind = "comment" -> MatchComment(s, i)
      [] p.kind = "rule" -> MatchRule(s, i)
      [] p.kind = "decl" -> MatchDecl(p.name, s, i)
      [] p.kind = "literal" -> MatchLiteral(p.name, s, i)
      [] p.kind = "incomplete" -> MatchIncomplete(p.name, s, i)
      [] p.kind = "generic" -> MatchGeneric(s, i)

\* re.sub(p, "", s): the leftmost non-overlapping matches removed, left to right
\* (from index i on; acc is the output so far)
RECURSIVE ReSubFrom(_, _, _, _)
ReSubFrom(p, s, i, acc) ==
    LET S == {j \in i..Len(s) : Match(p, s, j) > 0}
    IN  IF S = {} THEN acc \o SubSeq(s, i, Len(s))
        ELSE LET j == Min(S)
             IN  ReSubFrom(p, s, Match(p, s, j) + 1, acc \o SubSeq(s, i, j - 1))

ReSub(p, s) == ReSubFrom(p, s, 1, <<>>)

\* for pattern in patterns: body = re.sub(pattern, "", body)
RECURSIVE ReSubAll(_, _, _)
ReSubAll(patterns, k, s) ==
    IF k > Len(patterns) \/ s = <<>> THEN s
    ELSE ReSubAll(patterns, k + 1, ReSub(patterns[k], s))

\* re.sub(r"\s+", " ", s): every maximal run of whitespace becomes one space
\* (a run is replaced where it starts; its other characters are dropped)
SpaceRuns(s) ==
    LET Kept(i) == ~IsSpace(s[i]) \/ i = 1 \/ ~IsSpace(s[i - 1])
        at == SelectSeq([i \in 1..Len(s) |-> i], Kept)
    IN  [k \in 1..Len(at) |-> IF IsSpace(s[at[k]]) THEN " " ELSE s[at[k]]]

\* the collapse without the final strip()
CollapseWsNoStrip(s) == SpaceRuns(s)

\* re.sub(r"\s+", " ", body).strip()
CollapseWs(s) == Trim(SpaceRuns(s))

\* the least index j >= from with s[j] whitespace, or Len(s) + 1
NextSpace(s, from) ==
    LET S == {j \in from..Len(s) : IsSpace(s[j])}
    IN  IF S = {} THEN Len(s) + 1 ELSE Min(S)

\* body.split(): the maximal runs of non-whitespace characters (from index i on)
RECURSIVE SplitWs(_, _)
SplitWs(s, i) ==
    LET q == SkipSpace(s, i)
    IN  IF q > Len(s) THEN <<>>
        ELSE LET e == NextSpace(s, q)
             IN  <<SubSeq(s, q, e - 1)>> \o SplitWs(s, e)

\* " ".join(words)
RECURSIVE JoinSpace(_)
JoinSpace(words) ==
    IF words = <<>> THEN <<>>
    ELSE IF Len(words) = 1 THEN words[1]
    ELSE words[1] \o <<" ">> \o JoinSpace(Tail(words))

(***************************************************************************)
(* EmailBodyUtils.                                                         *)
(***************************************************************************)
css_patterns == <<
    [kind |-> "decl", name |-> <<"f", "o", "n", "t", "-", "f", "a", "m", "i", "l", "y">>],
    [kind |-> "decl", name |-> <<"c", "o", "l", "o", "r">>],
    [kind |-> "decl", name |-> <<"b", "a", "c", "k", "g", "r", "o", "u", "n", "d", "-", "c", "o", "l", "o", "r">>],
    [kind |-> "decl", name |-> <<"b", "a", "c", "k", "g", "r", "o", "u", "n", "d">>],
    [kind |-> "decl", name |-> <<"p", "a", "d", "d", "i", "n", "g">>],
    [kind |-> "decl", name |-> <<"m", "a", "r", "g", "i", "n">>],
    [kind |-> "decl", name |-> <<"b", "o", "r", "d", "e", "r">>],
    [kind |-> "decl", name |-> <<"w", "i", "d", "t", "h">>],
    [kind |-> "decl", name |-> <<"h", "e", "i", "g", "h", "t">>],
    [kind |-> "decl", name |-> <<"d", "i", "s", "p", "l", "a", "y">>],
    [kind |-> "decl", name |-> <<"p", "o", "s", "i", "t", "i", "o", "n">>],
    [kind |-> "decl", name |-> <<"f", "l", "o", "a", "t">>],
    [kind |-> "decl", name |-> <<"c", "l", "e", "a", "r">>],
    [kind |-> "decl", name |-> <<"o", "v", "e", "r", "f", "l", "o", "w">>],
    [kind |-> "decl", name |-> <<"t", "e", "x", "t", "-", "a", "l", "i", "g", "n">>],
    [kind |-> "decl", name |-> <<"l", "i", "n", "e", "-", "h", "e", "i", "g", "h", "t">>],
    [kind |-> "decl", name |-> <<"f", "o", "n", "t", "-", "s", "i", "z", "e">>],
    [kind |-> "decl", name |-> <<"f", "o", "n", "t", "-", "w", "e", "i", "g", "h", "t">>],
    [kind |-> "decl", name |-> <<"t", "e", "x", "t", "-", "d", "e", "c", "o", "r", "a", "t", "i", "o", "n">>],
    [kind |-> "literal", name |-> <<"!", "i", "m", "p", "o", "r", "t", "a", "n", "t", ";">>],
    [kind |-> "decl", name |-> <<"o", "u", "t", "l", "i", "n", "e">>],
    [kind |-> "decl", name |-> <<"b", "o", "r", "d", "e", "r", "-", "c", "o", "l", "l", "a", "p", "s", "e">>],
    [kind |-> "decl", name |-> <<"t", "a", "b", "l", "e", "-", "l", "a", "y", "o", "u", "t">>],
    [kind |-> "decl", name |-> <<"o", "v", "e", "r", "f", "l", "o", "w", "-", "w", "r", "a", "p">>],
    [kind |-> "decl", name |-> <<"w", "o", "r", "d", "-", "w", "r", "a", "p">>],
    [kind |-> "decl", name |-> <<"w", "o", "r", "d", "-", "b", "r", "e", "a", "k">>],
    [kind |-> "decl", name |-> <<"-", "w", "e", "b", "k", "i", "t", "-", "t", "e", "x", "t", "-", "s", "i", "z", "e", "-", "a", "d", "j", "u", "s", "t">>],
    [kind |-> "decl", name |-> <<"-", "m", "s", "-", "w", "o", "r", "d", "-", "b", "r", "e", "a", "k">>],
    [kind |-> "decl", name |-> <<"s", "r", "c">>],
    [kind |-> "decl", name |-> <<"f", "o", "r", "m", "a", "t">>],
    [kind |-> "decl", name |-> <<"f", "o", "n", "t", "-", "s", "t", "y", "l", "e">>]
  >>

incomplete_css == <<
    [kind |-> "incomplete", name |-> <<"l", "i", "n", "e", "-", "h", "e", "i", "g", "h", "t">>],
    [kind |-> "incomplete", name |-> <<"b", "a", "c", "k", "g", "r", "o", "u", "n", "d">>],
    [kind |-> "incomplete", name |-> <<"b", "o", "r", "d", "e", "r">>],
    [kind |-> "incomplete", name |-> <<"w", "i", "d", "t", "h">>],
    [kind |-> "incomplete", name |-> <<"h", "e", "i", "g", "h", "t">>],
    [kind |-> "incomplete", name |-> <<"d", "i", "s", "p", "l", "a", "y">>],
    [kind |-> "incomplete", name |-> <<"p", "o", "s", "i", "t", "i", "o", "n">>],
    [kind |-> "incomplete", name |-> <<"f", "l", "o", "a", "t">>],
    [kind |-> "incomplete", name |-> <<"c", "l", "e", "a", "r">>],
    [kind |-> "incomplete", name |-> <<"o", "v", "e", "r", "f", "l", "o", "w">>],
    [kind |-> "incomplete", name |-> <<"t", "e", "x", "t", "-", "a", "l", "i", "g", "n">>],
    [kind |-> "incomplete", name |-> <<"f", "o", "n", "t", "-", "s", "i", "z", "e">>],
    [kind |-> "incomplete", name |-> <<"f", "o", "n", "t", "-", "w", "e", "i", "g", "h", "t">>],
    [kind |-> "incomplete", name |-> <<"t", "e", "x", "t", "-", "d", "e", "c", "o", "r", "a", "t", "i", "o", "n">>],
    [kind |-> "incomplete", name |-> <<"o", "u", "t", "l", "i", "n", "e">>],
    [kind |-> "incomplete", name |-> <<"b", "o", "r", "d", "e", "r", "-", "c", "o", "l", "l", "a", "p", "s", "e">>],
    [kind |-> "incomplete", name |-> <<"t", "a", "b", "l", "e", "-", "l", "a", "y", "o", "u", "t">>],
    [kind |-> "incomplete", name |-> <<"o", "v", "e", "r", "f", "l", "o", "w", "-", "w", "r", "a", "p">>],
    [kind |-> "incomplete", name |-> <<"w", "o", "r", "d", "-", "w", "r", "a", "p">>],
    [kind |-> "incomplete", name |-> <<"w", "o", "r", "d", "-", "b", "r", "e", "a", "k">>],
    [kind |-> "incomplete", name |-> <<"-", "w", "e", "b", "k", "i", "t", "-", "t", "e", "x", "t", "-", "s", "i", "z", "e", "-", "a", "d", "j", "u", "s", "t">>],
    [kind |-> "incomplete", name |-> <<"-", "m", "s", "-", "w", "o", "r", "d", "-", "b", "r", "e", "a", "k">>],
    [kind |-> "incomplete", name |-> <<"s", "r", "c">>],
    [kind |-> "incomplete", name |-> <<"f", "o", "r", "m", "a", "t">>],
    [kind |-> "incomplete", name |-> <<"f", "o", "n", "t", "-", "s", "t", "y", "l", "e">>]
  >>

\* EmailBodyUtils.strip
strip(body) ==
    IF body = <<>> THEN body
    ELSE CollapseWs(JoinSpace(SplitWs(body, 1)))

\* clean_html without the removal of the tags
CleanHtmlKeepsTags(body) ==
    IF body = <<>> THEN body ELSE CollapseWs(body)

\* EmailBodyUtils.clean_html
clean_html(body) ==
    IF body = <<>> THEN body
    ELSE CollapseWs(ReSub([kind |-> "tag"], body))

\* EmailBodyUtils.clean_css
clean_css(body) ==
    IF body = <<>> THEN body
    ELSE LET b1 == ReSub([kind |-> "style"], body)
             b2 == ReSub([kind |-> "import"], b1)
             b3 == ReSub([kind |-> "comment"], b2)
             b4 == ReSub([kind |-> "rule"], b3)
             b5 == ReSubAll(css_patterns, 1, b4)
             b6 == ReSubAll(incomplete_css, 1, b5)
             b7 == ReSub([kind |-> "generic"], b6)
         IN  CollapseWs(b7)

\* EmailBodyUtils.clean_strip
clean_strip(body) ==
    IF body = <<>> THEN body
    ELSE LET b1 == clean_html(body)
             b2 == clean_css(b1)
         IN  strip(b2)

(***************************************************************************)
(* EmailClassifier.  The outcome of the chat-completion call is a record:  *)
(* kind "raise" (the call raises), "nochoices" (the response has no        *)
(* choice, so response.choices[0] raises), "none" (the message content is  *)
(* None) or "text" (the content is the text field).                        *)
(***************************************************************************)
Informational == <<"I", "n", "f", "o", "r", "m", "a", "t", "i", "o", "n", "a", "l">>
PromotionalMarketing == <<"P", "r", "o", "m", "o", "t", "i", "o", "n", "a", "l", "/", "M", "a", "r", "k", "e", "t", "i", "n", "g">>
Personal == <<"P", "e", "r", "s", "o", "n", "a", "l">>
Other == <<"O", "t", "h", "e", "r">>
Unknown == <<"U", "n", "k", "n", "o", "w", "n">>

valid_categories == <<Informational, PromotionalMarketing, Personal, Other>>

InSeq(x, seq) == \E k \in 1..Len(seq) : seq[k] = x

\* body[:5000]
BodyLimit == 5000

\* the user message of the request: From, Subject and the truncated Body
RequestContent(email) ==
    [from |-> email.from,
     subject |-> email.subject,
     body |-> SubSeq(email.body, 1,
                     IF Len(email.body) < BodyLimit THEN Len(email.body) ELSE BodyLimit)]

\* MapResponse with the Personal heuristics tried before the Promotional ones
MapResponsePersonalFirst(content) ==
    LET classification == Trim(content)
        classification_lower == Lower(classification)
    IN  IF InSeq(classification, valid_categories) THEN classification
        ELSE IF \/ Contains(classification_lower, <<"i", "n", "f", "o", "r", "m", "a", "t", "i", "o", "n", "a", "l">>)
                \/ Contains(classification_lower, <<"i", "n", "f", "o">>)
             THEN Informational
        ELSE IF \/ Contains(classification_lower, <<"p", "e", "r", "s", "o", "n", "a", "l">>)
                \/ Contains(classification_lower, <<"w", "o", "r", "k">>)
                \/ Contains(classification_lower, <<"c", "o", "r", "r", "e", "s", "p", "o", "n", "d", "e", "n", "c", "e">>)
             THEN Personal
        ELSE IF \/ Contains(classification_lower, <<"p", "r", "o", "m", "o", "t", "i", "o", "n", "a", "l">>)
                \/ Contains(classification_lower, <<"m", "a", "r", "k", "e", "t", "i", "n", "g">>)
             THEN PromotionalMarketing
        ELSE Other

\* classify_email, lines 72-107: the label of a response content
MapResponse(content) ==
    LET classification == Trim(content)
        classification_lower == Lower(classification)
    IN  IF InSeq(classification, valid_categories) THEN classification
        ELSE IF \/ Contains(classification_lower, <<"i", "n", "f", "o", "r", "m", "a", "t", "i", "o", "n", "a", "l">>)
                \/ Contains(classification_lower, <<"i", "n", "f", "o">>)
             THEN Informational
        ELSE IF \/ Contains(classification_lower, <<"p", "r", "o", "m", "o", "t", "i", "o", "n", "a", "l">>)
                \/ Contains(classification_lower, <<"m", "a", "r", "k", "e", "t", "i", "n", "g">>)
             THEN PromotionalMarketing
        ELSE IF \/ Contains(classification_lower, <<"p", "e", "r", "s", "o", "n", "a", "l">>)
                \/ Contains(classification_lower, <<"w", "o", "r", "k">>)
                \/ Contains(classification_lower, <<"c", "o", "r", "r", "e", "s", "p", "o", "n", "d", "e", "n", "c", "e">>)
             THEN Personal
        ELSE Other

\* classify_email with Unknown accepted as a category the response may name
ClassifyEmailAcceptsUnknown(outcome) ==
    IF outcome.kind \in {"raise", "nochoices"} THEN Unknown
    ELSE LET content == IF outcome.kind = "none" THEN <<>> ELSE outcome.text
         IN  IF Trim(content) = Unknown THEN Unknown ELSE MapResponse(content)

\* EmailClassifier.classify_email: the try block and its except Exception handler
classify_email(outcome) ==
    IF outcome.kind \in {"raise", "nochoices"} THEN Unknown
    ELSE MapResponse(IF outcome.kind = "none" THEN <<>> ELSE outcome.text)

\* classify_step that leaves out an email whose classification failed
ClassifyStepSkipsFailed(classified_emails, email, outcome) ==
    LET classification == classify_email(outcome)
        email_with_classification ==
            [f \in DOMAIN email \cup {"classification"} |->
                IF f = "classification" THEN classification ELSE email[f]]
    IN  IF classification = Unknown THEN classified_emails
        ELSE Append(classified_emails, email_with_classification)

\* classify_emails, lines 132-135: one round of the loop
classify_step(classified_emails, email, outcome) ==
    LET classification == classify_email(outcome)
        email_with_classification ==
            [f \in DOMAIN email \cup {"classification"} |->
                IF f = "classification" THEN classification ELSE email[f]]
    IN  Append(classified_emails, email_with_classification)

\* __init__ that never tests the key
ClassifierInitNeverRaises(key) == FALSE

\* EmailClassifier.__init__: TRUE when it raises ValueError (no API key)
classifier_init_raises(key) == key = ""

(***************************************************************************)
(* GmailClient.  Bytes and code points are integers.  A payload or part is *)
(* a record whose DOMAIN is the set of keys of the dict the API returned.  *)
(***************************************************************************)
B64Chars ==
    <<"A", "B", "C", "D", "E", "F", "G", "H", "I", "J", "K", "L", "M",
      "N", "O", "P", "Q", "R", "S", "T", "U", "V", "W", "X", "Y", "Z",
      "a", "b", "c", "d", "e", "f", "g", "h", "i", "j", "k", "l", "m",
      "n", "o", "p", "q", "r", "s", "t", "u", "v", "w", "x", "y", "z",
      "0", "1", "2", "3", "4", "5", "6", "7", "8", "9", "+", "/">>

\* urlsafe_b64decode translates "-" and "_" to "+" and "/" before decoding
UrlSafeTranslate(c) == IF c = "-" THEN "+" ELSE IF c = "_" THEN "/" ELSE c

\* the 6-bit value of a base64 character, 64 for any other character
B64Value(c) ==
    LET S == {k \in 1..Len(B64Chars) : B64Chars[k] = c}
    IN  IF S = {} THEN 64 ELSE Min(S) - 1

\* binascii.a2b_base64 (not strict): characters outside the alphabet are
\* skipped, a complete padding ends the input, an incomplete last quad raises
RECURSIVE A2bBase64(_, _, _, _, _, _)
A2bBase64(s, i, quad_pos, leftchar, pads, out) ==
    IF i > Len(s)
    THEN IF quad_pos # 0 THEN [ok |-> FALSE, bytes |-> <<>>]
         ELSE [ok |-> TRUE, bytes |-> out]
    ELSE IF s[i] = "="
    THEN IF quad_pos >= 2 /\ quad_pos + pads + 1 >= 4
         THEN [ok |-> TRUE, bytes |-> out]
         ELSE A2bBase64(s, i + 1, quad_pos, leftchar,
                        IF quad_pos >= 2 THEN pads + 1 ELSE pads, out)
    ELSE LET v == B64Value(UrlSafeTranslate(s[i]))
         IN  IF v >= 64 THEN A2bBase64(s, i + 1, quad_pos, leftchar, pads, out)
             ELSE CASE quad_pos = 0 ->
                         A2bBase64(s, i + 1, 1, v, 0, out)
                    [] quad_pos = 1 ->
                         A2bBase64(s, i + 1, 2, v % 16, 0,
                                   Append(out, leftchar * 4 + v \div 16))
                    [] quad_pos = 2 ->
                         A2bBase64(s, i + 1, 3, v % 4, 0,
                                   Append(out, leftchar * 16 + v \div 4))
                    [] quad_pos = 3 ->
                         A2bBase64(s, i + 1, 0, 0, 0,
                                   Append(out, leftchar * 64 + v))

\* a UTF-8 continuation byte
IsCont(b) == b >= 128 /\ b <= 191

\* bytes.decode("utf-8", errors="ignore"): the code points of the valid
\* sequences; an invalid start byte, a sequence cut by an invalid byte and a
\* sequence cut by the end of the data are dropped
RECURSIVE Utf8Ignore(_, _, _)
Utf8Ignore(bs, i, out) ==
    IF i > Len(bs) THEN out
    ELSE LET b == bs[i]
             n == Len(bs)
             lo2 == IF b = 224 THEN 160 ELSE IF b = 240 THEN 144 ELSE 128
             hi2 == IF b = 237 THEN 159 ELSE IF b = 244 THEN 143 ELSE 191
         IN  IF b < 128 THEN Utf8Ignore(bs, i + 1, Append(out, b))
             ELSE IF b < 194 \/ b > 244 THEN Utf8Ignore(bs, i + 1, out)
             ELSE IF i + 1 > n THEN out
             ELSE IF bs[i + 1] < lo2 \/ bs[i + 1] > hi2
                  THEN Utf8Ignore(bs, i + 1, out)
             ELSE IF b < 224
                  THEN Utf8Ignore(bs, i + 2,
                           Append(out, (b - 192) * 64 + (bs[i + 1] - 128)))
             ELSE IF i + 2 > n THEN out
             ELSE IF ~IsCont(bs[i + 2]) THEN Utf8Ignore(bs, i + 2, out)
             ELSE IF b < 240
                  THEN Utf8Ignore(bs, i + 3,
                           Append(out, (b - 224) * 4096 + (bs[i + 1] - 128) * 64
                                       + (bs[i + 2] - 128)))
             ELSE IF i + 3 > n THEN out
             ELSE IF ~IsCont(bs[i + 3]) THEN Utf8Ignore(bs, i + 3, out)
             ELSE Utf8Ignore(bs, i + 4,
                      Append(out, (b - 240) * 262144 + (bs[i + 1] - 128) * 4096
                                  + (bs[i + 2] - 128) * 64 + (bs[i + 3] - 128)))

\* _decode_base64: ok is FALSE when urlsafe_b64decode raises
_decode_base64(data) ==
    LET raw == A2bBase64(data, 1, 0, 0, 0, <<>>)
    IN  IF raw.ok THEN [ok |-> TRUE, text |-> Utf8Ignore(raw.bytes, 1, <<>>)]
        ELSE [ok |-> FALSE, text |-> <<>>]

\* _extract_header: the value of the first header with that name, or ""
_extract_header(headers, name) ==
    LET S == {k \in 1..Len(headers) : headers[k].name = name}
    IN  IF S = {} THEN "" ELSE headers[Min(S)].value

types == {"text/plain", "text/html"}

\* part.get("mimeType") in types and "data" in part["body"]
IsTextPartWithData(part) ==
    /\ "mimeType" \in DOMAIN part
    /\ part.mimeType \in types
    /\ "data" \in DOMAIN part.body

\* _extract_body: ok is FALSE when the decoding raises
_extract_body(payload) ==
    IF "parts" \in DOMAIN payload
    THEN LET S == {k \in 1..Len(payload.parts) : IsTextPartWithData(payload.parts[k])}
         IN  IF S = {} THEN [ok |-> TRUE, text |-> <<>>]
             ELSE _decode_base64(payload.parts[Min(S)].body.data)
    ELSE IF IsTextPartWithData(payload) THEN _decode_base64(payload.body.data)
    ELSE [ok |-> TRUE, text |-> <<>>]

\* get_unread_emails, lines 177-184: ok is FALSE when building the record raises
email_data(msg) ==
    LET headers == msg.payload.headers
        body == _extract_body(msg.payload)
    IN  [ok |-> body.ok,
         email |-> [from |-> _extract_header(headers, "From"),
                    subject |-> _extract_header(headers, "Subject"),
                    body |-> body.text,
                    date |-> _extract_header(headers, "Date")]]

\* get_step whose error handler returns the emails fetched so far
GetStepKeepsFetched(fetched, got) ==
    IF got.kind = "raise" THEN [ok |-> FALSE, emails |-> fetched]
    ELSE LET d == email_data(got.msg)
         IN  IF d.ok THEN [ok |-> TRUE, emails |-> Append(fetched, d.email)]
             ELSE [ok |-> FALSE, emails |-> fetched]

\* get_unread_emails, lines 164-195: one round of the loop over messages.
\* got.kind is "raise" when the get call raises, else got.msg is the message.
\* An error discards the emails fetched so far: the handler returns [].
get_step(fetched, got) ==
    IF got.kind = "raise" THEN [ok |-> FALSE, emails |-> <<>>]
    ELSE LET d == email_data(got.msg)
         IN  IF d.ok THEN [ok |-> TRUE, emails |-> Append(fetched, d.email)]
             ELSE [ok |-> FALSE, emails |-> <<>>]

(***************************************************************************)
(* GmailClient.authenticate.  tok is the cached token file: file is        *)
(* "missing", "corrupt" (from_authorized_user_file raises) or "ok", and    *)
(* for a loaded token has_token, expired and refresh_token are the fields  *)
(* of the credentials; google-auth's Credentials.valid is "has a token and *)
(* is not expired".  env holds the outcomes of the steps that can fail.    *)
(***************************************************************************)
NoCreds == [valid |-> FALSE, source |-> "none"]

AuthFailed == [ret |-> FALSE, built |-> FALSE, creds |-> NoCreds, saved |-> FALSE]

\* lines 95-101: build the Gmail service
BuildService(creds, saved, env) ==
    IF env.build_ok
    THEN [ret |-> TRUE, built |-> TRUE, creds |-> creds, saved |-> saved]
    ELSE [ret |-> FALSE, built |-> FALSE, creds |-> NoCreds, saved |-> saved]

\* lines 87-93: save the credentials for the next run, then build
SaveAndBuild(creds, env) ==
    IF env.save_ok THEN BuildService(creds, TRUE, env) ELSE AuthFailed

CredsValid(tok) == tok.file = "ok" /\ tok.has_token /\ ~tok.expired

\* lines 56-65: creds after loading the token and the refresh attempt
CredsAfterRefresh(tok, env) ==
    IF tok.file # "ok" THEN NoCreds
    ELSE IF tok.expired /\ tok.refresh_token
         THEN IF env.refresh_ok THEN [valid |-> TRUE, source |-> "refreshed"]
              ELSE NoCreds
         ELSE [valid |-> CredsValid(tok), source |-> "cached"]

authenticate(tok, env) ==
    IF CredsValid(tok)
    THEN BuildService([valid |-> TRUE, source |-> "cached"], FALSE, env)
    ELSE LET creds == CredsAfterRefresh(tok, env)
         IN  IF creds = NoCreds
             THEN IF ~env.credentials_file_exists THEN AuthFailed
                  ELSE IF ~env.flow_ok THEN AuthFailed
                  ELSE SaveAndBuild([valid |-> TRUE, source |-> "consent"], env)
             ELSE SaveAndBuild(creds, env)

(***************************************************************************)
(* EmailTableFormatter.  A row of the table is a record of its five cells;  *)
(* the date cell is a record naming the strftime format applied ("raw" when *)
(* the string did not parse) and the string it was applied to.             *)
(***************************************************************************)
DimOpen == <<"[", "d", "i", "m", "]">>
DimClose == <<"[", "/", "d", "i", "m", "]">>
UnknownSender == <<"U", "n", "k", "n", "o", "w", "n">>
NoSubject == <<"[", "d", "i", "m", "]", "(", "N", "o", " ", "s", "u", "b", "j", "e", "c", "t", ")", "[", "/", "d", "i", "m", "]">>
NoBody == <<"[", "d", "i", "m", "]", "(", "N", "o", " ", "b", "o", "d", "y", ")", "[", "/", "d", "i", "m", "]">>
NotAvailable == <<"[", "d", "i", "m", "]", "(", "N", "/", "A", ")", "[", "/", "d", "i", "m", "]">>
Ellipsis == <<".", ".", ".">>

\* _format_subject: subjects longer than SubjectLimit keep SubjectKept characters
SubjectLimit == 80
SubjectKept == 77
\* _format_body: bodies longer than BodyCellLimit keep BodyCellKept characters
BodyCellLimit == 310
BodyCellKept == 307
\* display_emails: the default of max_results
DefaultMaxResults == 50

\* EmailBodyUtils.to_text, which _format_body calls: the conversion of a raw
\* body to plain text; it does not fail.  The tags are removed, then the text
\* is split on runs of whitespace and rejoined with single spaces.
to_text(raw) == strip(clean_html(raw))

_format_sender(sender) ==
    IF sender = <<>> THEN UnknownSender
    ELSE IF FirstIdx(sender, 1, "<") > 0 /\ FirstIdx(sender, 1, ">") > 0
    THEN LET lt == FirstIdx(sender, 1, "<")
             name == Trim(SubSeq(sender, 1, lt - 1))
             lt2 == FirstIdx(sender, lt + 1, "<")
             seg == SubSeq(sender, lt + 1, IF lt2 = 0 THEN Len(sender) ELSE lt2 - 1)
             gt == FirstIdx(seg, 1, ">")
             email_address == Trim(IF gt = 0 THEN seg ELSE SubSeq(seg, 1, gt - 1))
         IN  IF name # <<>>
             THEN name \o <<"\n">> \o DimOpen \o email_address \o DimClose
             ELSE email_address
    ELSE sender

_format_subject(subject) ==
    IF subject = <<>> THEN NoSubject
    ELSE IF Len(subject) > SubjectLimit
    THEN SubSeq(subject, 1, SubjectKept) \o Ellipsis
    ELSE subject

_format_body(body) ==
    IF body = <<>> THEN NoBody
    ELSE LET text == to_text(body)
         IN  IF Len(text) > BodyCellLimit
             THEN SubSeq(text, 1, BodyCellKept) \o Ellipsis
             ELSE text

\* the date strings parsedate_to_datetime parses
ValidDate == <<"T", "u", "e", ",", " ", "7", " ", "M", "a", "r", " ", "2", "0", "2", "4", " ", "1", "3", ":", "0", "6", ":", "0", "0", " ", "-", "0", "7", "0", "0">>
ValidDates == {ValidDate}

\* _format_date: clock says where the parsed date lies relative to today
_format_date(date_string, clock) ==
    IF date_string \notin ValidDates THEN [format |-> "raw", of |-> date_string]
    ELSE IF clock = "today" THEN [format |-> "%-I:%M %p", of |-> date_string]
    ELSE IF clock = "this_year" THEN [format |-> "%b %-d", of |-> date_string]
    ELSE [format |-> "%m/%d/%y", of |-> date_string]

\* the cells of the row of one email
DataRow(_email, clock) ==
    [from |-> _format_sender(_email.from),
     subject |-> _format_subject(_email.subject),
     body |-> _format_body(_email.body),
     date |-> _format_date(_email.date, clock),
     type |-> IF "classification" \in DOMAIN _email
              THEN _email.classification ELSE NotAvailable]

BlankRow ==
    [from |-> <<>>, subject |-> <<>>, body |-> <<>>,
     date |-> [format |-> "raw", of |-> <<>>], type |-> <<>>]

\* display_emails, lines 58-76: the rows added for the emails from index k on
RECURSIVE AddRows(_, _, _, _)
AddRows(list, k, rows, clock) ==
    IF k > Len(list) THEN rows
    ELSE LET withRow == Append(rows, DataRow(list[k], clock))
         IN  AddRows(list, k + 1,
                     IF list[k] # list[Len(list)]
                     THEN Append(withRow, BlankRow) ELSE withRow,
                     clock)

\* display_emails, lines 82-90: the summary line
Summary(count, max_results) == IF count < max_results THEN "Found" ELSE "Showing"

(***************************************************************************)
(* The inputs the specifications draw from.                                *)
(***************************************************************************)
\* the concatenations of at most n elements of the set of sequences pieces
RECURSIVE Concats(_, _)
Concats(pieces, n) ==
    IF n = 0 THEN {<<>>}
    ELSE LET shorter == Concats(pieces, n - 1)
         IN  shorter \cup {s \o w : s \in shorter, w \in pieces}

\* the sequences of at most n elements of S
RECURSIVE SeqsUpTo(_, _)
SeqsUpTo(S, n) ==
    IF n = 0 THEN {<<>>}
    ELSE LET shorter == SeqsUpTo(S, n - 1)
         IN  shorter \cup {Append(s, x) : s \in shorter, x \in S}

\* bodies given to EmailBodyUtils: markup, whitespace, CSS punctuation, a
\* catalogue property and style tags, and the examples of the documentation
NormPieces ==
    {<<"<">>, <<">">>, <<" ">>, <<"\n">>, <<"a">>, <<":">>, <<";">>, <<"{">>, <<"}">>, <<"s", "r", "c">>,
     <<"<", "s", "t", "y", "l", "e", ">">>, <<"<", "/", "s", "t", "y", "l", "e", ">">>}

NormSamples ==
    {<<"a", "\n", "\n", " ", " ", "b", "\t", "c">>,
     <<"<", "p", ">", "H", "e", "l", "l", "o", " ", "<", "b", ">", "W", "o", "r", "l", "d", "<", "/", "b", ">", "<", "/", "p", ">">>,
     <<"<", "s", "t", "y", "l", "e", ">", "p", "{", "c", "o", "l", "o", "r", ":", "r", "e", "d", "}", "<", "/", "s", "t", "y", "l", "e", ">", "H", "i">>,
     <<"c", "o", "l", "o", "r", ":", " ", "r", "e", "d", ";", " ", "H", "e", "l", "l", "o">>,
     <<"@", "i", "m", "p", "o", "r", "t", " ", "u", "r", "l", "(", "x", ")", ";", " ", "a", " ", "/", "*", " ", "c", " ", "*", "/", " ", "b", " ", "!", "i", "m", "p", "o", "r", "t", "a", "n", "t", ";">>,
     <<"\r", "\n", " ", "a", "\t">>,
     <<"a", "s", "r", "c", ":", "a", ";", "{", "}">>,
     <<"@", "i", "m", "p", "c", "o", "l", "o", "r", ":", "r", "e", "d", ";", "o", "r", "t", " ", "x", ";">>,
     <<"H", "e", "l", "l", "o", ",", " ", "W", "o", "r", "l", "d">>}

NormInputs == Concats(NormPieces, MaxPieces) \cup NormSamples

\* responses of the classifier: the labels, the words of the heuristics in
\* lower, upper and mixed case, whitespace and other text
ResponseWords ==
    {Informational, PromotionalMarketing, Personal, Other, Unknown,
     <<"i", "n", "f", "o">>, <<"I", "N", "F", "O">>, <<"p", "r", "o", "m", "o", "t", "i", "o", "n", "a", "l">>, <<"M", "a", "r", "k", "e", "t", "i", "n", "g">>, <<"p", "e", "r", "s", "o", "n", "a", "l">>, <<"w", "o", "r", "k">>,
     <<"C", "o", "r", "r", "e", "s", "p", "o", "n", "d", "e", "n", "c", "e">>, <<" ">>, <<"\n">>, <<"x">>}

Responses == Concats(ResponseWords, MaxWords)

TextOutcomes == {[kind |-> "text", text |-> r] : r \in Responses}

FailedOutcomes ==
    {[kind |-> "raise", text |-> <<>>], [kind |-> "nochoices", text |-> <<>>]}

NoneOutcome == [kind |-> "none", text |-> <<>>]

\* the outcomes of the classification calls of a run of main
RunOutcomes ==
    FailedOutcomes \cup {NoneOutcome} \cup
    {[kind |-> "text", text |-> r] :
        r \in {Personal, Unknown, <<" ", "m", "a", "r", "k", "e", "t", "i", "n", "g", " ", "i", "n", "f", "o", "\n">>, <<"W", "o", "r", "k", " ", "o", "r", " ", "p", "e", "r", "s", "o", "n", "a", "l">>}}

\* base64url data of a part: "Hi", "<b>", an e-acute, an invalid byte, "Hi"
\* without its padding (the decoding raises), and no character at all
PartData == {<<"S", "G", "k", "=">>, <<"P", "G", "I", "-">>, <<"w", "6", "k", "=">>, <<"_", "w", "=", "=">>, <<"S", "G", "k">>, <<>>}

PartBodies == {[size |-> 0]} \cup {[size |-> Len(d), data |-> d] : d \in PartData}

Parts ==
    {[mimeType |-> m, body |-> b] :
        m \in {"text/plain", "text/html", "image/png"}, b \in PartBodies}

HeaderLists ==
    {<<[name |-> "From", value |-> "Ann <ann@example.com>"],
       [name |-> "Subject", value |-> "Hello"],
       [name |-> "Date", value |-> "Tue, 7 Mar 2024 13:06:00 -0700"]>>,
     <<[name |-> "from", value |-> "lower"],
       [name |-> "Date", value |-> "Tue, 7 Mar 2024 13:06:00 -0700"],
       [name |-> "From", value |-> "bob@example.com"],
       [name |-> "From", value |-> "second"]>>}

\* the payloads of messages: multipart ones and single-part ones
Payloads ==
    {[mimeType |-> "multipart/alternative", headers |-> h, body |-> [size |-> 0],
      parts |-> ps] : h \in HeaderLists, ps \in SeqsUpTo(Parts, MaxParts)}
    \cup {[mimeType |-> pt.mimeType, headers |-> h, body |-> pt.body] :
            h \in HeaderLists, pt \in Parts}

PlainHi == [mimeType |-> "text/plain", body |-> [size |-> 4, data |-> <<"S", "G", "k", "=">>]]
HtmlB == [mimeType |-> "text/html", body |-> [size |-> 4, data |-> <<"P", "G", "I", "-">>]]
Image == [mimeType |-> "image/png", body |-> [size |-> 4, data |-> <<"S", "G", "k", "=">>]]

\* the payloads of the messages of a run of main
RunPayloads ==
    LET h1 == CHOOSE h \in HeaderLists : Len(h) = 3
        h2 == CHOOSE h \in HeaderLists : Len(h) = 4
    IN  {[mimeType |-> "text/plain", headers |-> h1, body |-> PlainHi.body],
         [mimeType |-> "multipart/alternative", headers |-> h2,
          body |-> [size |-> 0], parts |-> <<Image, HtmlB, PlainHi>>],
         [mimeType |-> "multipart/mixed", headers |-> h1,
          body |-> [size |-> 0], parts |-> <<Image>>],
         [mimeType |-> "text/html", headers |-> h1,
          body |-> [size |-> 3, data |-> <<"S", "G", "k">>]]}

\* the outcomes of a get call
GetOutcomes ==
    {[kind |-> "raise", msg |-> [payload |-> CHOOSE pl \in RunPayloads : TRUE]]}
    \cup {[kind |-> "ok", msg |-> [payload |-> pl]] : pl \in RunPayloads}

\* the results of the list call: distinct message ids, in any order
MessageLists ==
    {m \in SeqsUpTo(1..MaxMessages, MaxMessages) :
        \A i, j \in 1..Len(m) : i # j => m[i] # m[j]}

TokenStates ==
    {[file |-> f, has_token |-> FALSE, expired |-> FALSE, refresh_token |-> FALSE] :
        f \in {"missing", "corrupt"}}
    \cup [file : {"ok"}, has_token : BOOLEAN, expired : BOOLEAN,
          refresh_token : BOOLEAN]

AuthEnvs ==
    [credentials_file_exists : BOOLEAN, refresh_ok : BOOLEAN, flow_ok : BOOLEAN,
     save_ok : BOOLEAN, build_ok : BOOLEAN]

SampleEmails ==
    {[from |-> "Ann <ann@example.com>", subject |-> "Hello",
      body |-> <<72, 105>>, date |-> "Tue, 7 Mar 2024 13:06:00 -0700"],
     [from |-> "", subject |-> "", body |-> <<>>, date |-> ""]}

\* the emails given to display_emails: a classified email with a sender name,
\* an email with every field empty and no classification, and an email with a
\* subject and a body longer than the cells keep
Repeat(c, n) == [k \in 1..n |-> c]

TableEmails ==
    {[from |-> <<"A", "n", "n", " ", "<", "a", "n", "n", "@", "e", "x", "a", "m", "p", "l", "e", ".", "c", "o", "m", ">">>, subject |-> <<"H", "e", "l", "l", "o">>, body |-> <<"<", "p", ">", "H", "i", " ", " ", "t", "h", "e", "r", "e", "<", "/", "p", ">">>,
      date |-> ValidDate, classification |-> Personal],
     [from |-> <<>>, subject |-> <<>>, body |-> <<>>, date |-> <<>>],
     [from |-> <<"b", "o", "b", "@", "e", "x", "a", "m", "p", "l", "e", ".", "c", "o", "m">>, subject |-> Repeat("s", SubjectLimit + 1),
      body |-> Repeat("x", BodyCellLimit + 1), date |-> <<"y", "e", "s", "t", "e", "r", "d", "a", "y">>,
      classification |-> Other]}

Clocks == {"today", "this_year", "earlier"}

(***************************************************************************)
(* The state of each part of the model while another part runs.            *)
(***************************************************************************)
MainIdle ==
    /\ pc = "idle"
    /\ api_key = ""
    /\ token = [file |-> "missing", has_token |-> FALSE, expired |-> FALSE,
                refresh_token |-> FALSE]
    /\ auth = AuthFailed
    /\ messages = <<>>
    /\ idx = 0
    /\ emails = <<>>
    /\ classified = <<>>
    /\ failed = <<>>
    /\ shown = "none"
    /\ raised = "none"
    /\ exit_code = -1
    /\ calls = <<>>

ClsIdle ==
    /\ cPc = "idle"
    /\ cEmail = [from |-> "", subject |-> "", body |-> <<>>, date |-> ""]
    /\ cRequest = [from |-> "", subject |-> "", body |-> <<>>]
    /\ cOutcome = NoneOutcome
    /\ cLabel = <<>>

BodyIdle ==
    /\ bPc = "idle"
    /\ bPayload = [mimeType |-> "", headers |-> <<>>, body |-> [size |-> 0]]
    /\ bResult = [ok |-> TRUE, text |-> <<>>]

NormIdle ==
    /\ nBody = <<>>
    /\ nOp = "idle"
    /\ nOut = <<>>
    /\ nAgain = [done |-> FALSE, out |-> <<>>]

TableIdle ==
    /\ tPc = "idle"
    /\ tEmails = <<>>
    /\ tMax = 0
    /\ tRows = <<>>
    /\ tShown = "none"
    /\ tSummary = "none"
    /\ tRaised = FALSE

(***************************************************************************)
(* main(): one run of the command.                                         *)
(***************************************************************************)
Init ==
    /\ pc = "auth"
    /\ api_key \in {"", "sk-test"}
    /\ token \in TokenStates
    /\ auth = AuthFailed
    /\ messages = <<>>
    /\ idx = 0
    /\ emails = <<>>
    /\ classified = <<>>
    /\ failed = <<>>
    /\ shown = "none"
    /\ raised = "none"
    /\ exit_code = -1
    /\ calls = <<>>
    /\ ClsIdle /\ BodyIdle /\ NormIdle /\ TableIdle

Call(op, arg, ok) == [op |-> op, arg |-> arg, ok |-> ok]

\* main without the sys.exit(1) of the authentication failure
AfterAuthenticateContinues(ret) == [pc |-> "list", exit_code |-> -1]

\* main, lines 59-65: after authenticate returned ret
after_authenticate(ret) ==
    IF ret THEN [pc |-> "list", exit_code |-> -1]
    ELSE [pc |-> "exit", exit_code |-> 1]

\* main, lines 72-75: the handler of an exception raised inside the try block
exception_exit == 1

\* main, lines 58-63: gmail_client.authenticate() and the exit on failure
Authenticate ==
    /\ pc = "auth"
    /\ \E env \in AuthEnvs :
        LET r == authenticate(token, env)
            next == after_authenticate(r.ret)
        IN  /\ auth' = r
            /\ pc' = next.pc
            /\ exit_code' = next.exit_code
            /\ calls' = Append(calls, Call("authenticate", 0, r.ret))
    /\ UNCHANGED <<api_key, token, messages, idx, emails, classified, failed,
                   shown, raised>>
    /\ UNCHANGED <<clsVars, bodyVars, normVars, tableVars>>

\* get_unread_emails, lines 141-159 and 190-195: the list call
ListMessages ==
    /\ pc = "list"
    /\ IF ~auth.built
       THEN /\ messages' = <<>>
            /\ pc' = "init_classifier"
            /\ UNCHANGED calls
       ELSE \E ok \in BOOLEAN, m \in MessageLists :
            /\ ~ok => m = <<>>
            /\ messages' = m
            /\ pc' = IF m = <<>> THEN "init_classifier" ELSE "get"
            /\ calls' = Append(calls, Call("list", 0, ok))
    /\ emails' = <<>>
    /\ idx' = 1
    /\ UNCHANGED <<api_key, token, auth, classified, failed, shown, raised,
                   exit_code>>
    /\ UNCHANGED <<clsVars, bodyVars, normVars, tableVars>>

\* get_unread_emails, lines 164-195: the get call of one message
GetMessage ==
    /\ pc = "get"
    /\ \E got \in GetOutcomes :
        LET r == get_step(emails, got)
        IN  /\ emails' = r.emails
            /\ calls' = Append(calls, Call("get", messages[idx], got.kind = "ok"))
            /\ IF r.ok /\ idx < Len(messages)
               THEN idx' = idx + 1 /\ pc' = "get"
               ELSE idx' = 1 /\ pc' = "init_classifier"
    /\ UNCHANGED <<api_key, token, auth, messages, classified, failed, shown,
                   raised, exit_code>>
    /\ UNCHANGED <<clsVars, bodyVars, normVars, tableVars>>

\* main, line 69: EmailClassifier()
InitClassifier ==
    /\ pc = "init_classifier"
    /\ IF classifier_init_raises(api_key)
       THEN /\ raised' = "ValueError"
            /\ pc' = "exit"
            /\ exit_code' = exception_exit
       ELSE /\ pc' = "classify"
            /\ UNCHANGED <<raised, exit_code>>
    /\ UNCHANGED <<api_key, token, auth, messages, idx, emails, classified,
                   failed, shown, calls>>
    /\ UNCHANGED <<clsVars, bodyVars, normVars, tableVars>>

\* classify_emails, lines 123-124: nothing to classify
ClassifyNothing ==
    /\ pc = "classify"
    /\ emails = <<>>
    /\ classified' = emails
    /\ pc' = "display"
    /\ UNCHANGED <<api_key, token, auth, messages, idx, emails, failed, shown,
                   raised, exit_code, calls>>
    /\ UNCHANGED <<clsVars, bodyVars, normVars, tableVars>>

\* the loop of classify_emails with a failed classification issued a second
\* time before the loop moves on
ClassifyNextRetries ==
    /\ pc = "classify"
    /\ emails # <<>>
    /\ \E outcome \in RunOutcomes :
        LET last == calls[Len(calls)]
            retry == /\ outcome.kind = "raise"
                     /\ ~(last.op = "classify" /\ last.arg = idx)
        IN  /\ classified' = IF retry THEN classified
                              ELSE classify_step(classified, emails[idx], outcome)
            /\ failed' = IF retry THEN failed
                          ELSE Append(failed, outcome \in FailedOutcomes)
            /\ calls' = Append(calls, Call("classify", idx, outcome.kind # "raise"))
            /\ IF retry
               THEN UNCHANGED <<idx, pc>>
               ELSE IF idx < Len(emails)
                    THEN idx' = idx + 1 /\ pc' = "classify"
                    ELSE idx' = 1 /\ pc' = "display"
    /\ UNCHANGED <<api_key, token, auth, messages, emails, shown, raised,
                   exit_code>>
    /\ UNCHANGED <<clsVars, bodyVars, normVars, tableVars>>

\* classify_emails, lines 131-140: the classification of one email
ClassifyNext ==
    /\ pc = "classify"
    /\ emails # <<>>
    /\ \E outcome \in RunOutcomes :
        /\ classified' = classify_step(classified, emails[idx], outcome)
        /\ failed' = Append(failed, outcome \in FailedOutcomes)
        /\ calls' = Append(calls, Call("classify", idx, outcome.kind # "raise"))
    /\ IF idx < Len(emails)
       THEN idx' = idx + 1 /\ pc' = "classify"
       ELSE idx' = 1 /\ pc' = "display"
    /\ UNCHANGED <<api_key, token, auth, messages, emails, shown, raised,
                   exit_code>>
    /\ UNCHANGED <<clsVars, bodyVars, normVars, tableVars>>

\* main, line 71: display_emails renders the panel (no email) or the table; the
\* formatting of a row may raise, the panel of the empty case is a plain print
Display ==
    /\ pc = "display"
    /\ \E ok \in BOOLEAN :
        /\ ~ok => classified # <<>>
        /\ IF ok
           THEN /\ shown' = IF classified = <<>> THEN "panel" ELSE "table"
                /\ exit_code' = 0
                /\ raised' = "none"
                /\ calls' = Append(calls, Call("display", Len(classified), TRUE))
           ELSE /\ shown' = "none"
                /\ exit_code' = exception_exit
                /\ raised' = "display"
                /\ calls' = Append(calls, Call("display", Len(classified), FALSE))
    /\ pc' = "exit"
    /\ UNCHANGED <<api_key, token, auth, messages, idx, emails, classified,
                   failed>>
    /\ UNCHANGED <<clsVars, bodyVars, normVars, tableVars>>

Next ==
    \/ Authenticate
    \/ ListMessages
    \/ GetMessage
    \/ InitClassifier
    \/ ClassifyNothing
    \/ ClassifyNext
    \/ Display

Spec == Init /\ [][Next]_vars

(***************************************************************************)
(* One call of classify_email.                                             *)
(***************************************************************************)
ClassifyInit ==
    /\ cPc = "ready"
    /\ cEmail \in SampleEmails
    /\ cRequest = [from |-> "", subject |-> "", body |-> <<>>]
    /\ cOutcome = NoneOutcome
    /\ cLabel = <<>>
    /\ MainIdle /\ BodyIdle /\ NormIdle /\ TableIdle

ClassifyEmail(outcome) ==
    /\ cPc = "ready"
    /\ cRequest' = RequestContent(cEmail)
    /\ cOutcome' = outcome
    /\ cLabel' = classify_email(outcome)
    /\ cPc' = "returned"
    /\ UNCHANGED cEmail
    /\ UNCHANGED <<mainVars, bodyVars, normVars, tableVars>>

\* the call raises, or the handling of its response raises
ClassifyFails == \E outcome \in FailedOutcomes : ClassifyEmail(outcome)

\* the call returns a response
ClassifyResponds ==
    \E outcome \in TextOutcomes \cup {NoneOutcome} : ClassifyEmail(outcome)

ClassifyNextStep == ClassifyFails \/ ClassifyResponds

SpecClassify == ClassifyInit /\ [][ClassifyNextStep]_vars

(***************************************************************************)
(* One call of _extract_body.                                              *)
(***************************************************************************)
BodyInit ==
    /\ bPc = "ready"
    /\ bPayload \in Payloads
    /\ bResult = [ok |-> TRUE, text |-> <<>>]
    /\ MainIdle /\ ClsIdle /\ NormIdle /\ TableIdle

ExtractBody ==
    /\ bPc = "ready"
    /\ bResult' = _extract_body(bPayload)
    /\ bPc' = "done"
    /\ UNCHANGED bPayload
    /\ UNCHANGED <<mainVars, clsVars, normVars, tableVars>>

SpecBody == BodyInit /\ [][ExtractBody]_vars

(***************************************************************************)
(* One call of a method of EmailBodyUtils.                                 *)
(***************************************************************************)
NormInit ==
    /\ nBody \in NormInputs
    /\ nOp = "none"
    /\ nOut = <<>>
    /\ nAgain = [done |-> FALSE, out |-> <<>>]
    /\ MainIdle /\ ClsIdle /\ BodyIdle /\ TableIdle

Apply(op, out) ==
    /\ nOp = "none"
    /\ nOp' = op
    /\ nOut' = out
    /\ UNCHANGED <<nBody, nAgain>>
    /\ UNCHANGED <<mainVars, clsVars, bodyVars, tableVars>>

CallStrip == Apply("strip", strip(nBody))

CallCleanHtml == Apply("clean_html", clean_html(nBody))

CallCleanCss == Apply("clean_css", clean_css(nBody))

CallCleanStrip == Apply("clean_strip", clean_strip(nBody))

\* clean_strip called on the value the first call of clean_strip returned
CallCleanStripAgain ==
    /\ nOp = "clean_strip"
    /\ ~nAgain.done
    /\ nAgain' = [done |-> TRUE, out |-> clean_strip(nOut)]
    /\ UNCHANGED <<nBody, nOp, nOut>>
    /\ UNCHANGED <<mainVars, clsVars, bodyVars, tableVars>>

NormNext ==
    \/ CallStrip
    \/ CallCleanHtml
    \/ CallCleanCss
    \/ CallCleanStrip
    \/ CallCleanStripAgain

SpecNorm == NormInit /\ [][NormNext]_vars

(***************************************************************************)
(* One call of display_emails.                                             *)
(***************************************************************************)
TableInit ==
    /\ tPc = "ready"
    /\ tEmails \in SeqsUpTo(TableEmails, MaxEmails)
    /\ tMax \in {2, DefaultMaxResults}
    /\ tRows = <<>>
    /\ tShown = "none"
    /\ tSummary = "none"
    /\ tRaised = FALSE
    /\ MainIdle /\ ClsIdle /\ BodyIdle /\ NormIdle

\* display_emails, lines 31-39: no email, the panel is printed
DisplayNoEmails ==
    /\ tPc = "ready"
    /\ tEmails = <<>>
    /\ tShown' = "panel"
    /\ tPc' = "done"
    /\ UNCHANGED <<tEmails, tMax, tRows, tSummary, tRaised>>
    /\ UNCHANGED <<mainVars, clsVars, bodyVars, normVars>>

\* display_emails, lines 41-90: the rows are added, then the table and the
\* summary are printed; printing fails when a cell is not valid console markup
DisplayTable ==
    /\ tPc = "ready"
    /\ tEmails # <<>>
    /\ \E clock \in Clocks, ok \in BOOLEAN :
        /\ tRows' = AddRows(tEmails, 1, <<>>, clock)
        /\ tShown' = IF ok THEN "table" ELSE "none"
        /\ tSummary' = IF ok THEN Summary(Len(tEmails), tMax) ELSE "none"
        /\ tRaised' = ~ok
    /\ tPc' = "done"
    /\ UNCHANGED <<tEmails, tMax>>
    /\ UNCHANGED <<mainVars, clsVars, bodyVars, normVars>>

TableNext == DisplayNoEmails \/ DisplayTable

SpecTable == TableInit /\ [][TableNext]_vars

(***************************************************************************)
(* Properties.                                                             *)
(***************************************************************************)
Labels == {Informational, PromotionalMarketing, Personal, Other}

\* SubSeq(t, i, j) is t without its leading and trailing whitespace
IsStripped(t, i, j) ==
    /\ j >= i - 1
    /\ \A k \in 1..(i - 1) : IsSpace(t[k])
    /\ \A k \in (j + 1)..Len(t) : IsSpace(t[k])
    /\ j >= i => (~IsSpace(t[i]) /\ ~IsSpace(t[j]))

\* the word w occurs in the lower-cased r
HasWord(r, w) ==
    \E i \in 1..Len(r) :
        /\ i + Len(w) - 1 <= Len(r)
        /\ \A k \in 1..Len(w) : LowerChar(r[i + k - 1]) = w[k]

\* the label the priority order gives the trimmed response r
PriorityLabel(r) ==
    IF r \in Labels THEN r
    ELSE IF HasWord(r, <<"i", "n", "f", "o">>) THEN Informational
    ELSE IF HasWord(r, <<"p", "r", "o", "m", "o", "t", "i", "o", "n", "a", "l">>) \/ HasWord(r, <<"m", "a", "r", "k", "e", "t", "i", "n", "g">>)
         THEN PromotionalMarketing
    ELSE IF HasWord(r, <<"p", "e", "r", "s", "o", "n", "a", "l">>) \/ HasWord(r, <<"w", "o", "r", "k">>)
            \/ HasWord(r, <<"c", "o", "r", "r", "e", "s", "p", "o", "n", "d", "e", "n", "c", "e">>)
         THEN Personal
    ELSE Other

\* the content of the response of a call that did not fail
ResponseText == IF cOutcome.kind = "none" THEN <<>> ELSE cOutcome.text

\* C1: a response returned without raising is mapped, after trimming, in the
\* fixed priority order: an exact label is returned as it is, else "info" gives
\* Informational, else "promotional" or "marketing" gives Promotional/Marketing,
\* else "personal", "work" or "correspondence" gives Personal, else Other; the
\* empty response gets Other.
C1_LabelPriority ==
    (cPc = "returned" /\ cOutcome \notin FailedOutcomes) =>
        /\ \A i \in 1..(Len(ResponseText) + 1), j \in 0..Len(ResponseText) :
              IsStripped(ResponseText, i, j) =>
                  cLabel = PriorityLabel(SubSeq(ResponseText, i, j))
        /\ \E i \in 1..(Len(ResponseText) + 1), j \in 0..Len(ResponseText) :
              IsStripped(ResponseText, i, j)
        /\ ResponseText = <<>> => cLabel = Other

\* a response that matches the Promotional and the Personal heuristics gets the
\* label of the first of the two branches
C1_Witness ==
    /\ cPc = "returned"
    /\ cOutcome.kind = "text"
    /\ HasWord(cOutcome.text, <<"p", "e", "r", "s", "o", "n", "a", "l">>)
    /\ HasWord(cOutcome.text, <<"m", "a", "r", "k", "e", "t", "i", "n", "g">>)
    /\ ~HasWord(cOutcome.text, <<"i", "n", "f", "o">>)
    /\ cLabel = PromotionalMarketing

\* C2: classify_email returns Unknown exactly when the call, or the handling of
\* its response, raises; every response text, the text "Unknown" included,
\* gets one of the four other labels.
C2_UnknownIffRaised ==
    cPc = "returned" =>
        /\ cLabel \in Labels \cup {Unknown}
        /\ cLabel = Unknown <=> cOutcome \in FailedOutcomes

\* the classifier answers "Unknown" and the label is Other
C2_Witness ==
    /\ cPc = "returned"
    /\ cOutcome.kind = "text"
    /\ cOutcome.text = Unknown
    /\ cLabel = Other

\* C3: classify_emails of a non-empty list returns a list of the same length
\* and order, each record the input record plus a label, the label being
\* Unknown exactly for the items whose call failed.
C3_BatchKeepsEveryEmail ==
    (pc = "display" /\ emails # <<>>) =>
        /\ Len(classified) = Len(emails)
        /\ Len(failed) = Len(emails)
        /\ \A i \in 1..Len(emails) :
              /\ DOMAIN classified[i] = DOMAIN emails[i] \cup {"classification"}
              /\ \A f \in DOMAIN emails[i] : classified[i][f] = emails[i][f]
              /\ classified[i].classification = Unknown <=> failed[i]

\* the first call failed and the second email was still classified
C3_Witness ==
    /\ pc = "display"
    /\ Len(emails) >= 2
    /\ failed[1]
    /\ ~failed[2]
    /\ classified[1].classification = Unknown
    /\ classified[2].classification = Personal

\* the part of the multipart payload the claim of C4 names: the first
\* text/plain part with data
FirstPlainWithData(payload) ==
    LET S == {k \in 1..Len(payload.parts) :
                 /\ IsTextPartWithData(payload.parts[k])
                 /\ payload.parts[k].mimeType = "text/plain"}
    IN  payload.parts[Min(S)]

HasPartWithData(payload, mime) ==
    \E k \in 1..Len(payload.parts) :
        /\ IsTextPartWithData(payload.parts[k])
        /\ payload.parts[k].mimeType = mime

\* C4: for a multipart message with a text/plain part with data and a text/html
\* part with data, in any order, the extracted body is the decoded text/plain
\* part.
C4_PlainPreferred ==
    (/\ bPc = "done"
     /\ "parts" \in DOMAIN bPayload
     /\ HasPartWithData(bPayload, "text/plain")
     /\ HasPartWithData(bPayload, "text/html")) =>
        bResult = _decode_base64(FirstPlainWithData(bPayload).body.data)

\* the run made a display call
DisplayCalled == \E k \in 1..Len(calls) : calls[k].op = "display"

\* C5: a run ends with exit code 1 if authentication fails or an error
\* reaches the handler of main, and with exit code 0 otherwise; there is no
\* other exit code, and no display after an authentication failure.
C5_ExitCode ==
    /\ exit_code \in {-1, 0, 1}
    /\ exit_code = -1 <=> pc # "exit"
    /\ pc = "exit" => (exit_code = 1 <=> (~auth.ret \/ raised # "none"))
    /\ (pc # "auth" /\ ~auth.ret) =>
          (pc = "exit" /\ shown = "none" /\ ~DisplayCalled)

\* a run whose display step raised ended with exit code 1
C5_Witness ==
    /\ pc = "exit"
    /\ auth.ret
    /\ raised = "display"
    /\ exit_code = 1

\* the list call or a get call of the run raised
RetrievalFailed ==
    \E k \in 1..Len(calls) : calls[k].op \in {"list", "get"} /\ ~calls[k].ok

\* C6: an error of the list call or of a get call is not fatal:
\* get_unread_emails returns the empty list, nothing reaches the handler of
\* main and, with an API key, the run displays zero emails and exits with 0.
C6_RetrievalFailureNotFatal ==
    (RetrievalFailed /\ pc # "get") =>
        /\ emails = <<>>
        /\ raised \in {"none", "ValueError"}
        /\ api_key # "" =>
              /\ raised = "none"
              /\ pc = "exit" => (exit_code = 0 /\ shown = "panel" /\ classified = <<>>)

\* the second get call failed after the first message was fetched, and the run
\* ended with exit code 0
C6_Witness ==
    /\ pc = "exit"
    /\ api_key # ""
    /\ \E k \in 1..Len(calls) :
          /\ k > 1
          /\ calls[k].op = "get" /\ ~calls[k].ok
          /\ calls[k - 1].op = "get" /\ calls[k - 1].ok
    /\ shown = "panel"
    /\ exit_code = 0

\* C7: whenever authenticate returns True, the service was built from valid
\* credentials; with loaded credentials that are invalid and cannot be
\* refreshed it does not return True with those credentials.
C7_ServiceCredentialsValid ==
    (pc # "auth" /\ auth.ret) => (auth.built /\ auth.creds.valid)

\* the run made a classification call
ClassifyCalled == \E k \in 1..Len(calls) : calls[k].op = "classify"

\* C8: without OPENAI_API_KEY the construction of the classifier raises before
\* any classification request, and the run ends with exit code 1 without
\* rendering the emails, whatever the number of retrieved emails.
C8_MissingKeyFatal ==
    api_key = "" =>
        /\ pc \notin {"classify", "display"}
        /\ ~ClassifyCalled /\ ~DisplayCalled /\ shown = "none"
        /\ pc = "exit" => exit_code = 1
        /\ (pc = "exit" /\ auth.ret) => raised = "ValueError"

\* a run without the key that retrieved emails and ended in the constructor
C8_Witness ==
    /\ api_key = ""
    /\ pc = "exit"
    /\ Len(emails) >= 1
    /\ raised = "ValueError"
    /\ exit_code = 1

\* C9 as stated: the output of clean_strip has no "<" followed later by a ">"
C9_NoAngleBracketPair ==
    nOp = "clean_strip" =>
        ~\E i, j \in 1..Len(nOut) : i < j /\ nOut[i] = "<" /\ nOut[j] = ">"

\* C9: the output of clean_strip contains no tag with a character between its
\* brackets: a "<" that is followed later by a ">" is immediately followed by
\* ">" (the empty pair "<>" is left in place).
C9_NoTagWithContent ==
    nOp = "clean_strip" =>
        \A i, j \in 1..Len(nOut) :
            (i < j /\ nOut[i] = "<" /\ nOut[j] = ">") => nOut[i + 1] = ">"

\* the tags of the documented example are removed
C9_Witness ==
    /\ nOp = "clean_strip"
    /\ nBody = <<"<", "p", ">", "H", "e", "l", "l", "o", " ", "<", "b", ">", "W", "o", "r", "l", "d", "<", "/", "b", ">", "<", "/", "p", ">">>
    /\ nOut = <<"H", "e", "l", "l", "o", " ", "W", "o", "r", "l", "d">>

\* C10: for a non-empty input the output of clean_strip, strip, clean_html
\* and clean_css has no whitespace character other than the space, no two
\* consecutive spaces and no leading or trailing space; "a\n\n  b\tc" yields
\* "a b c".
C10_WhitespaceCollapsed ==
    (nOp \in {"clean_strip", "strip", "clean_html", "clean_css"} /\ nBody # <<>>) =>
        /\ \A i \in 1..Len(nOut) : IsSpace(nOut[i]) => nOut[i] = " "
        /\ \A i \in 1..(Len(nOut) - 1) : ~(nOut[i] = " " /\ nOut[i + 1] = " ")
        /\ nOut # <<>> => (nOut[1] # " " /\ nOut[Len(nOut)] # " ")
        /\ nBody = <<"a", "\n", "\n", " ", " ", "b", "\t", "c">> => nOut = <<"a", " ", "b", " ", "c">>

\* clean_css was applied to a body with leading and trailing whitespace of
\* several kinds
C10_Witness ==
    /\ nOp = "clean_css"
    /\ nBody = <<"\r", "\n", " ", "a", "\t">>
    /\ nOut = <<"a">>

\* the body has a substring the tag pattern of clean_html matches
HasTag(s) == \E i \in 1..Len(s) : MatchTag(s, i) > 0

\* C11: for every body that contains no HTML tag, clean_strip applied to the
\* result of clean_strip returns that result unchanged.
C11_Idempotent ==
    (nAgain.done /\ ~HasTag(nBody)) => nAgain.out = nOut

\* the calls of one operation, in the order they were made, and their arguments
CallsOf(op) == SelectSeq(calls, LAMBDA c : c.op = op)

Args(op) == [k \in 1..Len(CallsOf(op)) |-> CallsOf(op)[k].arg]

IsPrefix(a, b) == Len(a) <= Len(b) /\ \A k \in 1..Len(a) : a[k] = b[k]

UpTo(n) == [k \in 1..n |-> k]

\* every call of opA was made before every call of opB
Before(opA, opB) ==
    \A i, j \in 1..Len(calls) :
        (calls[i].op = opA /\ calls[j].op = opB) => i < j

\* the list call is made once at most and after authenticate, every get call
\* precedes every classification call, the renderer is called once at most
\* and after the last classification call
CallOrder ==
    /\ Len(CallsOf("authenticate")) <= 1
    /\ Len(CallsOf("list")) <= 1
    /\ Len(CallsOf("list")) = 1 => Len(CallsOf("authenticate")) = 1
    /\ Before("authenticate", "list")
    /\ Before("list", "get")
    /\ Before("get", "classify")
    /\ Before("classify", "display")
    /\ Len(CallsOf("display")) <= 1

\* a call that failed is not made a second time
NoReissue ==
    \A i, j \in 1..Len(calls) :
        (i < j /\ ~calls[i].ok) =>
            ~(calls[j].op = calls[i].op /\ calls[j].arg = calls[i].arg)

\* C12 as stated: the calls of a run are made in order, each listed message
\* id is fetched by exactly one get call in list order, each retrieved email
\* is classified exactly once in retrieval order, the table is rendered once
\* at most and last, and no failed call is made again.
C12_StrictlySequential ==
    /\ CallOrder
    /\ NoReissue
    /\ pc = "exit" => Args("get") = messages
    /\ pc = "exit" => Args("classify") = UpTo(Len(emails))

\* C12: the calls of a run are made in order and no failed call is made
\* again; the get calls fetch the listed ids in list order, each id once at
\* most, and all of them unless a get call or the handling of its result
\* failed, which ends the retrieval with no email; the retrieved emails are
\* classified in retrieval order, each once at most, all of them when the
\* classifier was constructed and none when the API key is missing.
C12_SequentialNoRetry ==
    /\ CallOrder
    /\ NoReissue
    /\ IsPrefix(Args("get"), messages)
    /\ \A k \in 1..(Len(CallsOf("get")) - 1) : CallsOf("get")[k].ok
    /\ (pc # "get" /\ Args("get") # messages) => emails = <<>>
    /\ IsPrefix(Args("classify"), UpTo(Len(emails)))
    /\ pc = "exit" =>
        Args("classify") = IF raised = "ValueError" THEN <<>> ELSE UpTo(Len(emails))

\* a complete run: two messages fetched, two emails classified, the first
\* classification call failed, the table rendered
C12_Witness ==
    /\ pc = "exit"
    /\ Len(CallsOf("get")) = 2
    /\ Len(CallsOf("classify")) = 2
    /\ ~CallsOf("classify")[1].ok
    /\ shown = "table"

\* C13: for a list of n >= 1 emails the table gets one data row per email and
\* one blank row after every email except the last, 2n - 1 rows in all, also
\* when emails of the list have identical values.
C13_RowCount ==
    (tPc = "done" /\ tEmails # <<>>) =>
        /\ Len(tRows) = 2 * Len(tEmails) - 1
        /\ \A k \in 1..Len(tRows) : (tRows[k] = BlankRow) <=> (k % 2 = 0)
====
